---- MODULE Spec2Model ----
(***************************************************************************)
(* Code generator of the timber language (gen.py): the assembler Unit,     *)
(* the Namespace scope resolver, the frame size analysis and the           *)
(* statement/expression generators.                                        *)
(*                                                                         *)
(* Addresses are the 0-based list indices of the source; the instruction   *)
(* at address a is instrs[a + 1].  The diagnostic dictionaries comments    *)
(* and inline_comments are left out: no operation reads them to decide an  *)
(* instruction, a label, a jump or an error.                               *)
(***************************************************************************)
EXTENDS Integers, Sequences, FiniteSets, TLC

VARIABLES unit, other, preA, preB, err, links, inserted, lastop,
          ast, mode, pc, gst, vm, cur, prev, visited, compiled,
          nsNow, nsPrev, nsOp, handed, delta, sized

vars == <<unit, other, preA, preB, err, links, inserted, lastop,
          ast, mode, pc, gst, vm, cur, prev, visited, compiled,
          nsNow, nsPrev, nsOp, handed, delta, sized>>

unitVars == <<unit, other, preA, preB, err, links, inserted, lastop>>

genVars == <<ast, mode, pc, gst, vm, cur, prev, visited, compiled>>

partVars == <<nsNow, nsPrev, nsOp, handed, delta, sized>>

\* ------------------------------------------------------------ constants
TOS_ADDR_PTR == 0
STACK_BASE == 8
DUMMY_ADDR == -9999999

\* ------------------------------------------------------------ bounds
\* Total number of instructions held by the two units of the assembler
\* specification.
MaxInstrs == 3
\* Number of link calls made on one unit.
MaxLinks == 2
\* Longest argument list and parameter list of the programs compiled.
MaxArgs == 2
\* Most children of a block of the programs compiled.
MaxBlock == 2
\* Number of compilations made one after the other in one process.
MaxCompiles == 2
\* Largest offset handed to incr_tos and decr_tos.
MaxDelta == 2
\* Most frames pushed on a Namespace used on its own, and most slots handed
\* out by its add.
MaxFrames == 3
MaxHanded == 4

LabelNames == {"a", "b"}

\* ------------------------------------------------------------ Instr
\* Optional[Val]: None is <<>>, a value v is <<v>>.
None == <<>>
Some(v) == <<v>>

Instr(kind, arg) == [kind |-> kind, arg |-> arg]

JumpKinds == {"Jmp", "JmpF", "JmpT", "Call"}

\* ------------------------------------------------------------ dict helpers
\* d[k] = v
DictSet(d, k, v) == [x \in DOMAIN d \cup {k} |-> IF x = k THEN v ELSE d[x]]

\* d.update(e)
DictUpdate(d, e) ==
    [x \in DOMAIN d \cup DOMAIN e |-> IF x \in DOMAIN e THEN e[x] ELSE d[x]]

EmptyDict == [x \in {} |-> 0]

MinOf(S) == CHOOSE x \in S : \A y \in S : x <= y

\* ------------------------------------------------------------ Unit
EmptyUnit == [instrs |-> <<>>, labels |-> EmptyDict, jumps |-> EmptyDict]

\* Program.here: the index the next appended instruction will get.
Here(u) == Len(u.instrs)

AddInstr(u, kind, arg) == [u EXCEPT !.instrs = Append(@, Instr(kind, arg))]

\* insert with the labels of the inserted unit left at their old indices.
InsertLabelsNotOffset(self, u) ==
    LET addr_offset == Len(self.instrs)
        offset_jumps == [a \in {x + addr_offset : x \in DOMAIN u.jumps}
                            |-> u.jumps[a - addr_offset]]
    IN  [instrs |-> self.instrs \o u.instrs,
         labels |-> DictUpdate(self.labels, u.labels),
         jumps  |-> DictUpdate(self.jumps, offset_jumps)]

Insert(self, u) ==
    LET addr_offset == Len(self.instrs)
        offset_labels == [name \in DOMAIN u.labels |-> u.labels[name] + addr_offset]
        offset_jumps == [a \in {x + addr_offset : x \in DOMAIN u.jumps}
                            |-> u.jumps[a - addr_offset]]
    IN  [instrs |-> self.instrs \o u.instrs,
         labels |-> DictUpdate(self.labels, offset_labels),
         jumps  |-> DictUpdate(self.jumps, offset_jumps)]

\* The operand link writes for a jump to name.
LinkOperandNoDecrement(u, name) == u.labels[name]

LinkOperand(u, name) == u.labels[name] - 1

\* One iteration of link's loop, for the entry (addr, name) of jumps.
LinkStep(u, addr) ==
    LET name == u.jumps[addr]
        instr == u.instrs[addr + 1]
    IN  IF name \notin DOMAIN u.labels
        THEN [unit |-> u, err |-> "GenError: Unknown label"]
        ELSE IF instr.kind \notin JumpKinds \/ instr.arg # Some(DUMMY_ADDR)
        THEN [unit |-> u, err |-> "AssertionError"]
        ELSE [unit |-> [u EXCEPT !.instrs[addr + 1].arg = Some(LinkOperand(u, name))],
              err |-> "ok"]

\* link's loop over jumps.items().  A dict iterates in insertion order, and
\* every operation that adds a key to jumps adds one >= every key present
\* (call, jmp, jmp_f, jmp_t add len(instrs); insert adds keys >= len(instrs)),
\* so the order is the ascending order of the addresses.  An exception
\* leaves the operands written so far in place.
RECURSIVE LinkFrom(_, _)
LinkFrom(u, todo) ==
    IF todo = {} THEN [unit |-> u, err |-> "ok"]
    ELSE LET addr == MinOf(todo)
             r == LinkStep(u, addr)
         IN  IF r.err # "ok" THEN r ELSE LinkFrom(r.unit, todo \ {addr})

Link(u) == LinkFrom(u, DOMAIN u.jumps)

Label(u, name) == [u EXCEPT !.labels = DictSet(@, name, Len(u.instrs))]

Call(u, name) ==
    AddInstr([u EXCEPT !.jumps = DictSet(@, Here(u), name)], "Call", Some(DUMMY_ADDR))

Jmp(u, name) ==
    AddInstr([u EXCEPT !.jumps = DictSet(@, Here(u), name)], "Jmp", Some(DUMMY_ADDR))

JmpF(u, name) ==
    AddInstr([u EXCEPT !.jumps = DictSet(@, Here(u), name)], "JmpF", Some(DUMMY_ADDR))

JmpT(u, name) ==
    AddInstr([u EXCEPT !.jumps = DictSet(@, Here(u), name)], "JmpT", Some(DUMMY_ADDR))

Pop(u) == AddInstr(u, "Pop", None)

EmitJump(u, kind, name) ==
    CASE kind = "Call" -> Call(u, name)
      [] kind = "Jmp"  -> Jmp(u, name)
      [] kind = "JmpF" -> JmpF(u, name)
      [] kind = "JmpT" -> JmpT(u, name)

\* ------------------------------------------------------------ Unit helpers
Halt(u) == AddInstr(u, "Halt", None)

Rot(u) == AddInstr(u, "Rot", None)

Load(u) == AddInstr(u, "Load", None)

Store(u) == AddInstr(u, "Store", None)

Add(u) == AddInstr(u, "Add", None)

Sub(u) == AddInstr(u, "Sub", None)

Shl(u) == AddInstr(u, "Shl", None)

Ret(u) == AddInstr(u, "Ret", None)

Push(u, arg) == AddInstr(u, "Push", Some(arg))

EmitPrint(u) == AddInstr(u, "Print", None)

LoadTosPtr(u, offset) ==
    IF offset = 0
    THEN Load(Push(u, TOS_ADDR_PTR))
    ELSE Sub(Push(Load(Push(u, TOS_ADDR_PTR)), offset))

StoreTosPtr(u) == Store(Push(u, TOS_ADDR_PTR))

IncrTos(u, offset) ==
    IF offset = 0 THEN u
    ELSE StoreTosPtr(Add(Push(LoadTosPtr(u, 0), offset)))

\* assert offset >= 0 is the caller's obligation: every caller passes a
\* stack_size result, a sum of list lengths and ones.
DecrTos(u, offset) == StoreTosPtr(Sub(Push(LoadTosPtr(u, 0), offset)))

LoadTos(u, offset) == Load(LoadTosPtr(u, offset))

StoreTos(u, offset) == Store(LoadTosPtr(u, offset))

\* Unit.fresh is a classmethod: it builds on cls(), a new unit, whatever
\* unit it is called on.
Fresh == Halt(Call(Store(Push(Push(EmptyUnit, STACK_BASE), TOS_ADDR_PTR)), "main"))

BinaryOp(u, name, opkind) ==
    Ret(Rot(Insert(LoadTos(LoadTos(Label(u, name), 1), 0),
                   AddInstr(EmptyUnit, opkind, None))))

UnaryPrint(u) ==
    Ret(Rot(Insert(LoadTos(Label(u, "print"), 0), Push(EmitPrint(EmptyUnit), 0))))

Intrinsics(u) ==
    LET u1 == BinaryOp(u, "add", "Add")
        u2 == BinaryOp(u1, "sub", "Sub")
        u3 == BinaryOp(u2, "shl", "Shl")
        u4 == UnaryPrint(u3)
        u5 == Halt(LoadTos(Pop(Label(u4, "exit")), 0))
    IN  Ret(Rot(Pop(Rot(LoadTos(Label(u5, "return"), 0)))))

\* ------------------------------------------------------------ Namespace
EmptyNamespace == [stack |-> <<>>, max_depth |-> 0]

NamespacePush(ns) == [ns EXCEPT !.stack = Append(@, EmptyDict)]

NamespacePop(ns) == [ns EXCEPT !.stack = SubSeq(@, 1, Len(@) - 1)]

RECURSIVE SumLen(_)
SumLen(stack) == IF stack = <<>> THEN 0
                 ELSE Cardinality(DOMAIN Head(stack)) + SumLen(Tail(stack))

NamespaceDepth(ns) == SumLen(ns.stack)

\* get, searching the frames from the outermost.
GetFromOutermost(stack, i, name) ==
    LET binding == {k \in 1..i : name \in DOMAIN stack[k]}
    IN  IF binding = {} THEN [val |-> 0, err |-> "GenError: Unknown identifier"]
        ELSE [val |-> stack[MinOf(binding)][name], err |-> "none"]

\* get: the innermost frame that binds name decides.
RECURSIVE GetFrom(_, _, _)
GetFrom(stack, i, name) ==
    IF i = 0 THEN [val |-> 0, err |-> "GenError: Unknown identifier"]
    ELSE IF name \in DOMAIN stack[i] THEN [val |-> stack[i][name], err |-> "none"]
    ELSE GetFrom(stack, i - 1, name)

NamespaceGet(ns, name) == GetFrom(ns.stack, Len(ns.stack), name)

\* One iteration of add's loop, numbering the slots of each frame from 1.
AddOnePerFrame(ns, name) ==
    LET top == Len(ns.stack)
        depth == NamespaceDepth(ns)
    IN  IF top = 0 THEN [ns |-> ns, err |-> "IndexError"]
        ELSE IF name \in DOMAIN ns.stack[top] THEN [ns |-> ns, err |-> "AssertionError"]
        ELSE [ns |-> [stack |-> [ns.stack EXCEPT ![top] =
                                    DictSet(@, name, Cardinality(DOMAIN @) + 1)],
                      max_depth |-> IF depth > ns.max_depth THEN depth ELSE ns.max_depth],
              err |-> "none"]

\* One iteration of add's loop.
AddOne(ns, name) ==
    LET top == Len(ns.stack)
        depth == NamespaceDepth(ns)
    IN  IF top = 0 THEN [ns |-> ns, err |-> "IndexError"]
        ELSE IF name \in DOMAIN ns.stack[top] THEN [ns |-> ns, err |-> "AssertionError"]
        ELSE [ns |-> [stack |-> [ns.stack EXCEPT ![top] = DictSet(@, name, depth + 1)],
                      max_depth |-> IF depth > ns.max_depth THEN depth ELSE ns.max_depth],
              err |-> "none"]

\* add(names, stack_size): stack_size is not used by the body.
RECURSIVE NamespaceAdd(_, _, _)
NamespaceAdd(ns, names, stack_size) ==
    IF names = <<>> THEN [ns |-> ns, err |-> "none"]
    ELSE LET r == AddOne(ns, Head(names))
         IN  IF r.err # "none" THEN r ELSE NamespaceAdd(r.ns, Tail(names), stack_size)

\* ns.add(names), the call gen_var_decl and gen_fn_def make: add() takes two
\* positional arguments besides self and has no default for stack_size, so
\* the call raises TypeError before the body runs.
NamespaceAddOneArg(ns, names) == [ns |-> ns, err |-> "TypeError"]

\* ------------------------------------------------------------ AST
\* The node classes of common.py, by the attributes gen.py reads.
Stmt(child) == [node |-> "Stmt", child |-> child]
Block(children) == [node |-> "Block", children |-> children]
Expr(child) == [node |-> "Expr", child |-> child]
Lit(child) == [node |-> "Lit", child |-> child]
IntNode(value) == [node |-> "Int", value |-> value]
Var(name) == [node |-> "Var", name |-> name]
FnCall(name, args) == [node |-> "FnCall", name |-> name, args |-> args]
FnDef(name, arg_names, stmt) ==
    [node |-> "FnDef", name |-> name, arg_names |-> arg_names, stmt |-> stmt]
VarDecl(name) == [node |-> "VarDecl", name |-> name]
WhileLoop(guard, body) == [node |-> "WhileLoop", guard |-> guard, body |-> body]
Assign(name, expr) == [node |-> "Assign", name |-> name, expr |-> expr]

\* ------------------------------------------------------------ stack_size
\* isinstance(stmt, [Block, WhileLoop]): the second argument is a list, not
\* a type or a tuple of types, so the call raises TypeError.
IsInstanceOfList == "TypeError"

\* _stack_size_block: the loop body starts with the isinstance call above,
\* so a block with a child raises on its first child.
StackSizeBlock(node) ==
    IF node.children = <<>> THEN [val |-> 0, err |-> "none"]
    ELSE [val |-> 0, err |-> IsInstanceOfList]

RECURSIVE StackSize(_)
StackSize(node) ==
    CASE node.node = "Stmt" -> StackSize(node.child)
      [] node.node = "Block" -> StackSizeBlock(node)
      [] node.node = "FnDef" ->
            LET b == StackSize(node.stmt)
            IN  [val |-> Len(node.arg_names) + b.val, err |-> b.err]
      [] node.node = "WhileLoop" ->
            LET g == StackSize(node.guard)
                b == StackSize(node.body)
            IN  IF g.err # "none" THEN g ELSE [val |-> g.val + b.val, err |-> b.err]
      [] node.node = "VarDecl" -> [val |-> 1, err |-> "none"]
      [] OTHER -> [val |-> 0, err |-> "none"]

\* ------------------------------------------------------------ generators
\* A generator takes the node and the generation state st (the Namespace ns
\* and the class attribute Unit._next_label_id) and yields the unit it
\* returns, the state it leaves and err, "none" unless it raised.
InitialGenState == [ns |-> EmptyNamespace, next_label_id |-> -1]

Result(u, st) == [unit |-> u, st |-> st, err |-> "none"]

Raise(e, st) == [unit |-> EmptyUnit, st |-> st, err |-> e]

PushFrame(st) == [st EXCEPT !.ns = NamespacePush(@)]

PopFrame(st) == [st EXCEPT !.ns = NamespacePop(@)]

\* Unit.new_label: the name minted in state st.
NewLabel(st) == "__" \o ToString(st.next_label_id + 1)

Minted(st) == [st EXCEPT !.next_label_id = @ + 1]

GenInt(int_, st) == Result(Push(EmptyUnit, int_.value), st)

GenLit(lit, st) ==
    IF lit.child.node = "Int" THEN GenInt(lit.child, st)
    ELSE Raise("NotImplementedError", st)

GenVar(var, st) ==
    LET g == NamespaceGet(st.ns, var.name)
    IN  IF g.err # "none" THEN Raise(g.err, st)
        ELSE Result(LoadTos(EmptyUnit, g.val), st)

\* reduce(Unit.insert, units, initial)
RECURSIVE ReduceInsert(_, _)
ReduceInsert(acc, units) ==
    IF units = <<>> THEN acc ELSE ReduceInsert(Insert(acc, Head(units)), Tail(units))

\* [Unit().insert(arg).store_tos(i) for i, arg in enumerate(args_raw)]
ArgsPushed(args_raw) ==
    [i \in 1..Len(args_raw) |-> StoreTos(Insert(EmptyUnit, args_raw[i]), i - 1)]

\* The unit gen_fn_call returns for the generated arguments.
FnCallUnit(name, args_raw) == Call(ReduceInsert(EmptyUnit, ArgsPushed(args_raw)), name)

\* The unit gen_while_loop returns, without the jump to the guard.
WhileLoopUnitBodyFirst(guard, body, start_label, guard_label, end_label) ==
    Label(JmpT(Insert(Label(Insert(Label(EmptyUnit, start_label), body),
                            guard_label), guard), start_label), end_label)

\* The unit gen_while_loop returns for the generated guard and body.
WhileLoopUnit(guard, body, start_label, guard_label, end_label) ==
    Label(JmpT(Insert(Label(Insert(Label(Jmp(EmptyUnit, guard_label), start_label), body),
                            guard_label), guard), start_label), end_label)

\* The unit gen_fn_def returns for the generated body.
FnDefUnit(name, size, body) ==
    Ret(Rot(DecrTos(Insert(IncrTos(Label(EmptyUnit, name), size), body), size)))

RECURSIVE GenStmt(_, _), GenExpr(_, _), GenBlock(_, _), GenFnDef(_, _),
          GenWhileLoop(_, _), GenFnCall(_, _), GenEach(_, _, _)

\* [gen(x, ns) for x in nodes], gen being gen_stmt or gen_expr: the units
\* in order; the first exception ends the comprehension.
GenEach(nodes, st, isStmt) ==
    IF nodes = <<>> THEN [units |-> <<>>, st |-> st, err |-> "none"]
    ELSE LET r == IF isStmt THEN GenStmt(Head(nodes), st) ELSE GenExpr(Head(nodes), st)
         IN  IF r.err # "none" THEN [units |-> <<>>, st |-> r.st, err |-> r.err]
             ELSE LET rest == GenEach(Tail(nodes), r.st, isStmt)
                  IN  [rest EXCEPT !.units = <<r.unit>> \o @]

GenBlock(block, st) ==
    LET r == GenEach(block.children, PushFrame(st), TRUE)
    IN  IF r.err # "none" THEN Raise(r.err, r.st)
        ELSE Result(ReduceInsert(EmptyUnit, r.units), PopFrame(r.st))

GenVarDecl(var_decl, st) ==
    LET st1 == PopFrame(st)
        a == NamespaceAddOneArg(st1.ns, <<var_decl.name>>)
    IN  IF a.err # "none" THEN Raise(a.err, [st1 EXCEPT !.ns = a.ns])
        ELSE Result(EmptyUnit, PushFrame([st1 EXCEPT !.ns = a.ns]))

GenFnDef(fn_def, st) ==
    LET st1 == PushFrame(st)
        a == NamespaceAddOneArg(st1.ns, fn_def.arg_names)
        st2 == [st1 EXCEPT !.ns = a.ns]
        body == GenStmt(fn_def.stmt, st2)
        size == StackSize(fn_def)
    IN  IF a.err # "none" THEN Raise(a.err, st2)
        ELSE IF body.err # "none" THEN body
        ELSE IF size.err # "none" THEN Raise(size.err, PopFrame(body.st))
        ELSE Result(FnDefUnit(fn_def.name, size.val, body.unit), PopFrame(body.st))

GenWhileLoop(while_loop, st) ==
    LET guard == GenExpr(while_loop.guard, PushFrame(st))
        body == GenStmt(while_loop.body, PushFrame(PopFrame(guard.st)))
        st1 == PopFrame(body.st)
        start_label == NewLabel(st1)
        guard_label == NewLabel(Minted(st1))
        end_label == NewLabel(Minted(Minted(st1)))
    IN  IF guard.err # "none" THEN guard
        ELSE IF body.err # "none" THEN body
        ELSE Result(WhileLoopUnit(guard.unit, body.unit, start_label, guard_label, end_label),
                    Minted(Minted(Minted(st1))))

\* gen_fn_call, had it resolved the function name in the namespace.
GenFnCallResolvesName(fn_call, st) ==
    LET g == NamespaceGet(st.ns, fn_call.name)
    IN  IF g.err # "none" THEN Raise(g.err, st)
        ELSE LET r == GenEach(fn_call.args, PushFrame(st), FALSE)
             IN  IF r.err # "none" THEN Raise(r.err, r.st)
                 ELSE Result(FnCallUnit(fn_call.name, r.units), PopFrame(r.st))

\* gen_fn_call: the arguments in a fresh frame, then the call; the name is
\* not looked up.
GenFnCall(fn_call, st) ==
    LET r == GenEach(fn_call.args, PushFrame(st), FALSE)
    IN  IF r.err # "none" THEN Raise(r.err, r.st)
        ELSE Result(FnCallUnit(fn_call.name, r.units), PopFrame(r.st))

GenExpr(expr, st) ==
    LET child == expr.child
    IN  CASE child.node = "Lit" -> GenLit(child, st)
          [] child.node = "Var" -> GenVar(child, st)
          [] child.node = "FnCall" -> GenFnCall(child, st)
          [] OTHER -> Raise("NotImplementedError", st)

GenAssign(assign, st) ==
    LET expr == GenExpr(assign.expr, PushFrame(st))
        st1 == PopFrame(expr.st)
        g == NamespaceGet(st1.ns, assign.name)
    IN  IF expr.err # "none" THEN expr
        ELSE IF g.err # "none" THEN Raise(g.err, st1)
        ELSE Result(StoreTos(Insert(EmptyUnit, expr.unit), g.val), st1)

\* gen_stmt: every branch returns, so the ns.pop() after the chain is never
\* reached.
GenStmt(stmt, st) ==
    LET child == stmt.child
        st1 == PushFrame(st)
    IN  CASE child.node = "Block" -> GenBlock(child, st1)
          [] child.node = "Expr" ->
                LET r == GenExpr(child, st1)
                IN  IF r.err # "none" THEN r ELSE [r EXCEPT !.unit = Pop(@)]
          [] child.node = "FnDef" -> GenFnDef(child, st1)
          [] child.node = "WhileLoop" -> GenWhileLoop(child, st1)
          [] child.node = "VarDecl" -> GenVarDecl(child, st1)
          [] child.node = "Assign" -> GenAssign(child, st1)
          [] OTHER -> Raise("NotImplementedError", st1)

\* ------------------------------------------------------------ machine
\* The execution engine (module vm) as section 6 of the specification gives
\* it: pc is incremented before dispatch, so a jump to operand t dispatches
\* the instruction at t + 1 next.  hw is the hardware stack, mem the memory
\* (0 where never written), out the printed values.
InitialVM == [pc |-> -1, hw |-> <<>>, mem |-> EmptyDict, out |-> <<>>, state |-> "running"]

MemRead(mem, addr) == IF addr \in DOMAIN mem THEN mem[addr] ELSE 0

Top(hw) == hw[Len(hw)]

Drop(hw, n) == SubSeq(hw, 1, Len(hw) - n)

Truthy(v) == v # 0

\* The operands an instruction pops.
Needs(kind) ==
    CASE kind \in {"Pop", "Dup", "Load", "JmpT", "JmpF", "Ret", "Print"} -> 1
      [] kind \in {"Store", "Add", "Sub"} -> 2
      [] OTHER -> 0

VMStep(m, program) ==
    LET at == m.pc + 1
        instr == program[at + 1]
        kind == instr.kind
        hw == m.hw
        next == [m EXCEPT !.pc = at]
    IN  IF at >= Len(program) THEN [m EXCEPT !.state = "end"]
        ELSE IF Len(hw) < Needs(kind) THEN [next EXCEPT !.state = "fault"]
        ELSE CASE kind = "Push" -> [next EXCEPT !.hw = Append(hw, instr.arg[1])]
               [] kind = "Pop" -> [next EXCEPT !.hw = Drop(hw, 1)]
               [] kind = "Dup" -> [next EXCEPT !.hw = Append(hw, Top(hw))]
               [] kind = "Load" ->
                     [next EXCEPT !.hw = Append(Drop(hw, 1), MemRead(m.mem, Top(hw)))]
               [] kind = "Store" ->
                     [next EXCEPT !.hw = Drop(hw, 2),
                                  !.mem = DictSet(m.mem, Top(hw), hw[Len(hw) - 1])]
               [] kind = "Add" ->
                     [next EXCEPT !.hw = Append(Drop(hw, 2), hw[Len(hw) - 1] + Top(hw))]
               [] kind = "Sub" ->
                     [next EXCEPT !.hw = Append(Drop(hw, 2), hw[Len(hw) - 1] - Top(hw))]
               [] kind = "Jmp" -> [next EXCEPT !.pc = instr.arg[1]]
               [] kind = "JmpT" ->
                     [next EXCEPT !.hw = Drop(hw, 1),
                                  !.pc = IF Truthy(Top(hw)) THEN instr.arg[1] ELSE at]
               [] kind = "JmpF" ->
                     [next EXCEPT !.hw = Drop(hw, 1),
                                  !.pc = IF Truthy(Top(hw)) THEN at ELSE instr.arg[1]]
               [] kind = "Call" -> [next EXCEPT !.hw = Append(hw, at), !.pc = instr.arg[1]]
               [] kind = "Ret" -> [next EXCEPT !.hw = Drop(hw, 1), !.pc = Top(hw)]
               [] kind = "Print" ->
                     [next EXCEPT !.hw = Drop(hw, 1), !.out = Append(m.out, Top(hw))]
               [] kind = "Halt" -> [next EXCEPT !.state = "halt"]
               [] OTHER -> [next EXCEPT !.state = "fault"]

\* The variables of the specifications of the parts, at rest.
PartsIdle ==
    /\ nsNow = EmptyNamespace
    /\ nsPrev = EmptyNamespace
    /\ nsOp = [op |-> "new"]
    /\ handed = <<>>
    /\ delta = 0
    /\ sized = [val |-> 0, err |-> "none"]

\* ------------------------------------------------------------ assembler
\* The assembler specification: a receiver `unit` and an argument `other`
\* are built by appends, label declarations and jump emissions; `other` is
\* inserted into `unit` once, after which only `unit` is built further;
\* `unit` is linked.  preA and preB hold the two operands of the insert,
\* lastop the latest operation on `unit`.
Room == Len(unit.instrs) + Len(other.instrs) < MaxInstrs

UnitInit ==
    /\ unit = EmptyUnit
    /\ other = EmptyUnit
    /\ preA = EmptyUnit
    /\ preB = EmptyUnit
    /\ err = "none"
    /\ links = 0
    /\ inserted = FALSE
    /\ lastop = "new"
    /\ ast = Stmt(Block(<<>>))
    /\ mode = "unit"
    /\ pc = "unit"
    /\ gst = InitialGenState
    /\ vm = InitialVM
    /\ cur = -1
    /\ prev = -1
    /\ visited = {}
    /\ compiled = <<>>
    /\ PartsIdle

UAppend ==
    /\ links = 0 /\ Room
    /\ unit' = Pop(unit)
    /\ lastop' = "build"
    /\ UNCHANGED <<other, preA, preB, err, links, inserted>>
    /\ UNCHANGED genVars
    /\ UNCHANGED partVars

ULabel ==
    /\ links = 0
    /\ \E name \in LabelNames : unit' = Label(unit, name)
    /\ lastop' = "build"
    /\ UNCHANGED <<other, preA, preB, err, links, inserted>>
    /\ UNCHANGED genVars
    /\ UNCHANGED partVars

UJump ==
    /\ links = 0 /\ Room
    /\ \E kind \in {"Call", "Jmp"}, name \in LabelNames : unit' = EmitJump(unit, kind, name)
    /\ lastop' = "build"
    /\ UNCHANGED <<other, preA, preB, err, links, inserted>>
    /\ UNCHANGED genVars
    /\ UNCHANGED partVars

OAppend ==
    /\ links = 0 /\ ~inserted /\ Room
    /\ other' = Pop(other)
    /\ UNCHANGED <<unit, preA, preB, err, links, inserted, lastop>>
    /\ UNCHANGED genVars
    /\ UNCHANGED partVars

OLabel ==
    /\ links = 0 /\ ~inserted
    /\ \E name \in LabelNames : other' = Label(other, name)
    /\ UNCHANGED <<unit, preA, preB, err, links, inserted, lastop>>
    /\ UNCHANGED genVars
    /\ UNCHANGED partVars

OJump ==
    /\ links = 0 /\ ~inserted /\ Room
    /\ \E kind \in {"JmpF", "JmpT"}, name \in LabelNames : other' = EmitJump(other, kind, name)
    /\ UNCHANGED <<unit, preA, preB, err, links, inserted, lastop>>
    /\ UNCHANGED genVars
    /\ UNCHANGED partVars

UInsert ==
    /\ links = 0 /\ ~inserted
    /\ unit' = Insert(unit, other)
    /\ other' = EmptyUnit
    /\ preA' = unit
    /\ preB' = other
    /\ inserted' = TRUE
    /\ lastop' = "insert"
    /\ UNCHANGED <<err, links>>
    /\ UNCHANGED genVars
    /\ UNCHANGED partVars

ULink ==
    /\ links < MaxLinks
    /\ LET r == Link(unit)
       IN  /\ unit' = r.unit
           /\ err' = r.err
    /\ links' = links + 1
    /\ lastop' = IF links = 0 /\ lastop = "insert" THEN "insert+link" ELSE "link"
    /\ UNCHANGED <<other, preA, preB, inserted>>
    /\ UNCHANGED genVars
    /\ UNCHANGED partVars

UnitNext ==
    \/ UAppend \/ ULabel \/ UJump
    \/ OAppend \/ OLabel \/ OJump
    \/ UInsert \/ ULink

SpecUnit == UnitInit /\ [][UnitNext]_vars

\* ------------------------------------------------------------ assembler claims
Resolved(u, a) ==
    /\ u.jumps[a] \in DOMAIN u.labels
    /\ u.instrs[a + 1].arg = Some(u.labels[u.jumps[a]] - 1)

\* C1: after a successful link of a unit built by appends, label
\* declarations, jump and call emissions and an insert, every index in jumps
\* names a declared label, the instruction there has the operand
\* labels[name] - 1, and no jump or call keeps the unresolved sentinel.
C1_LinkResolvesEveryJump ==
    (links >= 1 /\ err = "ok") =>
        /\ \A a \in DOMAIN unit.jumps : Resolved(unit, a)
        /\ \A i \in 1..Len(unit.instrs) :
              unit.instrs[i].kind \in JumpKinds => unit.instrs[i].arg # Some(DUMMY_ADDR)

\* A unit with jumps of both operands of an insert has been linked.
C1_Witness ==
    /\ links = 1 /\ err = "ok" /\ inserted
    /\ DOMAIN preA.jumps # {}
    /\ DOMAIN preB.jumps # {}

\* The first link of a unit that holds a jump to a name never declared
\* raises GenError for the unknown label.
FirstLinkRejectsUnknownLabel ==
    (links = 1 /\ \E a \in DOMAIN unit.jumps : unit.jumps[a] \notin DOMAIN unit.labels)
        => err = "GenError: Unknown label"

\* A resolved jump or call operand moved by k; other instructions as they
\* are.
Shifted(instr, k) ==
    IF instr.kind \in JumpKinds THEN [instr EXCEPT !.arg = Some(@[1] + k)] ELSE instr

\* The linked program is linked A followed by linked B rebased.
Piecewise(A, B) ==
    LET n == Len(A.instrs)
        la == Link(A)
        lb == Link(B)
    IN  /\ la.err = "ok"
        /\ lb.err = "ok"
        /\ SubSeq(unit.instrs, 1, n) = la.unit.instrs
        /\ SubSeq(unit.instrs, n + 1, Len(unit.instrs))
              = [i \in 1..Len(B.instrs) |-> Shifted(lb.unit.instrs[i], n)]

\* C3 as claimed: for any two units A and B, inserting B into A and linking
\* gives linked A followed by linked B with its operands shifted by
\* len(A.instrs).
C3_AnyTwoUnits ==
    (lastop = "insert+link" /\ err = "ok") => Piecewise(preA, preB)

\* No jump of A targets a name that B declares.
NoRetarget(A, B) == \A a \in DOMAIN A.jumps : A.jumps[a] \notin DOMAIN B.labels

\* C3 as amended: for units A and B that each link on their own, B
\* declaring no label that a jump of A targets, inserting B into A and
\* linking succeeds and gives linked A followed by linked B with its
\* operands shifted by len(A.instrs).
C3_DisjointTargets ==
    (/\ lastop = "insert+link"
     /\ Link(preA).err = "ok"
     /\ Link(preB).err = "ok"
     /\ NoRetarget(preA, preB))
        => err = "ok" /\ Piecewise(preA, preB)

\* Two units with jumps, both declaring the label a, were inserted and
\* linked.
C3_Witness ==
    /\ lastop = "insert+link" /\ err = "ok"
    /\ Link(preA).err = "ok" /\ Link(preB).err = "ok" /\ NoRetarget(preA, preB)
    /\ DOMAIN preA.jumps # {}
    /\ DOMAIN preB.jumps # {}
    /\ DOMAIN preA.labels \cap DOMAIN preB.labels # {}

\* ------------------------------------------------------------ programs
Ints == {0, 1}
VarNames == {"x", "y"}
FnNames == {"main", "f"}
\* f and main may be defined by the program, add is an intrinsic, g is
\* bound nowhere.
CalleeNames == {"f", "g", "add"}

SeqsUpTo(S, n) == UNION {[1..k -> S] : k \in 0..n}

LitExprs == {Expr(Lit(IntNode(v))) : v \in Ints}
VarExprs == {Expr(Var(n)) : n \in VarNames}
Atoms == LitExprs \cup VarExprs
CallExprs == {Expr(FnCall(n, a)) : n \in CalleeNames, a \in SeqsUpTo(Atoms, MaxArgs)}
Exprs == Atoms \cup CallExprs

Use(n) == Stmt(Expr(Var(n)))
Decl(n) == Stmt(VarDecl(n))

Leaves ==
    {Stmt(e) : e \in Exprs} \cup {Decl(n) : n \in VarNames}
    \cup {Stmt(Assign(n, e)) : n \in VarNames, e \in Atoms}

SmallLeaves ==
    {Stmt(e) : e \in LitExprs} \cup {Use("x"), Decl("x"), Stmt(Expr(FnCall("g", <<>>)))}

InnerLoops == {Stmt(WhileLoop(g, b)) : g \in LitExprs, b \in SmallLeaves}

Blocks == {Stmt(Block(c)) : c \in SeqsUpTo(SmallLeaves \cup InnerLoops, MaxBlock)}

Loops ==
    {Stmt(WhileLoop(g, b)) :
        g \in Atoms \cup {Expr(FnCall("g", <<>>))},
        b \in SmallLeaves \cup InnerLoops \cup Blocks}

\* f(a, g(b)): a call whose last argument is a call.
NestedCalls ==
    {Stmt(Expr(FnCall("f", <<a, Expr(FnCall("g", <<b>>))>>))) : a, b \in LitExprs}

\* Statements generated and linked on their own.
Fragments == Leaves \cup Blocks \cup Loops \cup NestedCalls

\* { decl x; { decl y; use y }; use x }, with y = x the shadowing case.
ShadowBlock(x, y) == Stmt(Block(<<Decl(x), Stmt(Block(<<Decl(y), Use(y)>>)), Use(x)>>))

\* { decl x; decl y }, with y = x the duplicate declaration.
SiblingDecls(x, y) == Stmt(Block(<<Decl(x), Decl(y)>>))

\* { decl x; { decl y } }, with y = x the redeclaration in a nested block.
NestedDecls(x, y) == Stmt(Block(<<Decl(x), Stmt(Block(<<Decl(y)>>))>>))

FnBodies ==
    {Stmt(Block(c)) : c \in SeqsUpTo({Decl("x"), Use("x"),
                                      Stmt(Expr(FnCall("return", <<Expr(Var("x"))>>)))}, 1)}

FnDefs ==
    {Stmt(FnDef(n, p, b)) : n \in FnNames, p \in SeqsUpTo(VarNames, MaxArgs), b \in FnBodies}

\* { fn f(params) { body }; fn main() { f(args) } }
CallProgram(params, body, args) ==
    Stmt(Block(<<Stmt(FnDef("f", params, body)),
                 Stmt(FnDef("main", <<>>,
                            Stmt(Block(<<Stmt(Expr(FnCall("f", args)))>>))))>>))

\* { use p1; ...; use pn }
ParamUses(params) == Stmt(Block([i \in 1..Len(params) |-> Use(params[i])]))

CallPrograms ==
    {CallProgram(p, b, a) : p \in SeqsUpTo(VarNames, MaxArgs),
                            b \in FnBodies \cup {ParamUses(q) : q \in SeqsUpTo(VarNames, MaxArgs)},
                            a \in SeqsUpTo(LitExprs, MaxArgs)}

\* { fn n() {}; fn m() { n() } }: with n = "add" a function named as an
\* intrinsic, with m = n two functions of one name.
ClashPrograms ==
    {Stmt(Block(<<Stmt(FnDef(n, <<>>, Stmt(Block(<<>>)))),
                  Stmt(FnDef(m, <<>>, Stmt(Block(<<Stmt(Expr(FnCall(n, <<>>)))>>))))>>)) :
        n \in {"add", "f"}, m \in {"main", "f", "add"}}

TopItems == SmallLeaves \cup InnerLoops \cup FnDefs

\* The statements handed to gen.
Programs ==
    {Stmt(Block(c)) : c \in SeqsUpTo(TopItems, MaxBlock)}
    \cup {ShadowBlock(x, y) : x, y \in VarNames}
    \cup {SiblingDecls(x, y) : x, y \in VarNames}
    \cup {NestedDecls(x, y) : x, y \in VarNames}
    \cup CallPrograms
    \cup ClashPrograms
    \cup Fragments

\* ------------------------------------------------------------ compiler
\* The compile specification.  In mode "gen" the steps of gen(stmt) are
\* taken in the order Python evaluates the chain: fresh, gen_stmt and
\* insert, halt, intrinsics, link.  In mode "fragment" gen_stmt(stmt,
\* Namespace()) is called on its own, its unit is linked and the engine runs
\* the linked program from its first instruction, as it does the program
\* gen returns.
GenInit ==
    /\ unit = EmptyUnit
    /\ other = EmptyUnit
    /\ preA = EmptyUnit
    /\ preB = EmptyUnit
    /\ err = "none"
    /\ links = 0
    /\ inserted = FALSE
    /\ lastop = "new"
    /\ \/ mode = "gen" /\ ast \in Programs /\ pc = "fresh"
       \/ mode = "fragment" /\ ast \in Fragments /\ pc = "stmt"
    /\ gst = InitialGenState
    /\ vm = InitialVM
    /\ cur = -1
    /\ prev = -1
    /\ visited = {}
    /\ compiled = <<>>
    /\ PartsIdle

GFresh ==
    /\ mode = "gen" /\ pc = "fresh"
    /\ unit' = Fresh
    /\ pc' = "stmt"
    /\ UNCHANGED <<other, preA, preB, err, links, inserted, lastop>>
    /\ UNCHANGED <<ast, mode, gst, vm, cur, prev, visited>>
    /\ UNCHANGED <<compiled, partVars>>

\* .insert(gen_stmt(stmt, ns))
GStmt ==
    /\ mode = "gen" /\ pc = "stmt"
    /\ LET r == GenStmt(ast, gst)
       IN  /\ gst' = r.st
           /\ err' = r.err
           /\ compiled' = Append(compiled, [unit |-> r.unit, err |-> r.err])
           /\ unit' = IF r.err = "none" THEN Insert(unit, r.unit) ELSE unit
           /\ pc' = IF r.err = "none" THEN "halt" ELSE "done"
    /\ UNCHANGED <<other, preA, preB, links, inserted, lastop>>
    /\ UNCHANGED <<ast, mode, vm, cur, prev, visited>>
    /\ UNCHANGED partVars

GHalt ==
    /\ pc = "halt"
    /\ unit' = Halt(unit)
    /\ pc' = "intrinsics"
    /\ UNCHANGED <<other, preA, preB, err, links, inserted, lastop>>
    /\ UNCHANGED <<ast, mode, gst, vm, cur, prev, visited>>
    /\ UNCHANGED <<compiled, partVars>>

GIntrinsics ==
    /\ pc = "intrinsics"
    /\ unit' = Intrinsics(unit)
    /\ pc' = "link"
    /\ UNCHANGED <<other, preA, preB, err, links, inserted, lastop>>
    /\ UNCHANGED <<ast, mode, gst, vm, cur, prev, visited>>
    /\ UNCHANGED <<compiled, partVars>>

\* gen_stmt(stmt, Namespace())
FStmt ==
    /\ mode = "fragment" /\ pc = "stmt"
    /\ LET r == GenStmt(ast, gst)
       IN  /\ gst' = r.st
           /\ err' = r.err
           /\ compiled' = Append(compiled, [unit |-> r.unit, err |-> r.err])
           /\ unit' = r.unit
           /\ pc' = IF r.err = "none" THEN "link" ELSE "done"
    /\ UNCHANGED <<other, preA, preB, links, inserted, lastop>>
    /\ UNCHANGED <<ast, mode, vm, cur, prev, visited>>
    /\ UNCHANGED partVars

GLink ==
    /\ pc = "link"
    /\ LET r == Link(unit)
       IN  /\ unit' = r.unit
           /\ err' = r.err
           /\ pc' = IF r.err = "ok" THEN "run" ELSE "done"
    /\ links' = links + 1
    /\ UNCHANGED <<other, preA, preB, inserted, lastop>>
    /\ UNCHANGED <<ast, mode, gst, vm, cur, prev, visited>>
    /\ UNCHANGED <<compiled, partVars>>

\* One dispatch of the engine on the linked program.
VRun ==
    /\ pc = "run"
    /\ LET m == VMStep(vm, unit.instrs)
       IN  /\ vm' = m
           /\ IF m.state = "end"
              THEN UNCHANGED <<cur, prev, visited>>
              ELSE /\ cur' = vm.pc + 1
                   /\ prev' = cur
                   /\ visited' = visited \cup {vm.pc + 1}
           /\ pc' = IF m.state = "running" THEN "run" ELSE "done"
    /\ UNCHANGED <<unit, other, preA, preB, err, links, inserted, lastop>>
    /\ UNCHANGED <<ast, mode, gst>>
    /\ UNCHANGED <<compiled, partVars>>

\* gen or gen_stmt is called again on the same statement in the same
\* process: a new Namespace and new units, and the class attribute
\* Unit._next_label_id as the previous call left it.
GAgain ==
    /\ mode \in {"gen", "fragment"} /\ pc = "done" /\ Len(compiled) < MaxCompiles
    /\ unit' = EmptyUnit
    /\ err' = "none"
    /\ links' = 0
    /\ gst' = [gst EXCEPT !.ns = EmptyNamespace]
    /\ vm' = InitialVM
    /\ cur' = -1
    /\ prev' = -1
    /\ visited' = {}
    /\ pc' = IF mode = "gen" THEN "fresh" ELSE "stmt"
    /\ UNCHANGED <<other, preA, preB, inserted, lastop>>
    /\ UNCHANGED <<ast, mode, compiled, partVars>>

Next == GFresh \/ GStmt \/ GHalt \/ GIntrinsics \/ FStmt \/ GLink \/ VRun \/ GAgain

Spec == GenInit /\ [][Next]_vars

\* ------------------------------------------------------------ compiler claims
RECURSIVE NodesOf(_)
\* The nodes of the tree under n, n included.
NodesOf(n) ==
    {n} \cup
    CASE n.node \in {"Stmt", "Expr", "Lit"} -> NodesOf(n.child)
      [] n.node = "Block" -> UNION {NodesOf(n.children[i]) : i \in 1..Len(n.children)}
      [] n.node = "FnCall" -> UNION {NodesOf(n.args[i]) : i \in 1..Len(n.args)}
      [] n.node = "FnDef" -> NodesOf(n.stmt)
      [] n.node = "WhileLoop" -> NodesOf(n.guard) \cup NodesOf(n.body)
      [] n.node = "Assign" -> NodesOf(n.expr)
      [] OTHER -> {}

Kinds(n) == {m.node : m \in NodesOf(n)}

IntrinsicNames == {"add", "sub", "shl", "print", "exit", "return"}

DefinedFns(n) == {m.name : m \in {k \in NodesOf(n) : k.node = "FnDef"}}

CalledFns(n) == {m.name : m \in {k \in NodesOf(n) : k.node = "FnCall"}}

\* The called names bound nowhere: no definition in the program, no
\* intrinsic.
UnboundCalls(n) == CalledFns(n) \ (DefinedFns(n) \cup IntrinsicNames)

\* gen_stmt has returned or raised.
Generated == mode \in {"gen", "fragment"} /\ pc \notin {"fresh", "stmt"}

\* gen_stmt has returned a unit.
GeneratedOk == Generated /\ (pc = "done" => links > 0)

GenErrors == {"GenError: Unknown label", "GenError: Unknown identifier"}

\* The offset of the load_tos (op "Load") or store_tos (op "Store") that
\* starts at instrs[i], -1 if none starts there.
AccessAt(u, i, op) ==
    LET n == Len(u.instrs)
        k(j) == u.instrs[j].kind
    IN  IF i + 2 > n \/ u.instrs[i] # Instr("Push", Some(TOS_ADDR_PTR)) \/ k(i + 1) # "Load"
        THEN -1
        ELSE IF i + 4 <= n /\ k(i + 2) = "Push" /\ k(i + 3) = "Sub" /\ k(i + 4) = op
        THEN u.instrs[i + 2].arg[1]
        ELSE IF k(i + 2) = op THEN 0
        ELSE -1

\* The offsets of the load_tos or store_tos sequences of u, in order.
TosOffsets(u, op) ==
    LET at == SelectSeq([i \in 1..Len(u.instrs) |-> i], LAMBDA i : AccessAt(u, i, op) >= 0)
    IN  [j \in 1..Len(at) |-> AccessAt(u, at[j], op)]

\* C2: linking a unit with a jump or call to a name never declared fails
\* with GenError, and so does gen for a program that defines no function
\* named main.
C2_NoMainRaisesGenError ==
    /\ (links >= 1 /\ \E a \in DOMAIN unit.jumps : unit.jumps[a] \notin DOMAIN unit.labels)
          => err = "GenError: Unknown label"
    /\ (mode = "gen" /\ pc = "done" /\ "main" \notin DefinedFns(ast))
          => err \in GenErrors

\* C4: in { decl x; { decl x; use x }; use x } the inner reference loads
\* the slot of the inner declaration (2) and the reference after the nested
\* block loads the slot of the outer declaration (1).
C4_ShadowingResolves ==
    \A x \in VarNames :
        (Generated /\ ast = ShadowBlock(x, x))
            => GeneratedOk /\ TosOffsets(unit, "Load") = <<2, 1>>

\* C5: a block whose direct children declare the same name twice is
\* rejected, a redeclaration of the name in a nested block is accepted.
C5_DuplicateRejectedNestedAccepted ==
    \A x \in VarNames :
        /\ (Generated /\ ast = SiblingDecls(x, x)) => ~GeneratedOk
        /\ (Generated /\ ast = NestedDecls(x, x)) => GeneratedOk

\* The programs in which nothing but a call can fail to generate: no
\* variable reference, assignment, declaration or function definition.
CallsOnly(n) == Kinds(n) \cap {"Var", "Assign", "VarDecl", "FnDef"} = {}

CallEmitted(name) ==
    \E a \in DOMAIN unit.jumps : unit.jumps[a] = name /\ unit.instrs[a + 1].kind = "Call"

\* C6 as claimed: a call to a name bound nowhere fails at generation time,
\* before a call instruction for the name is emitted and before link runs.
C6_UnboundCallFailsAtGeneration ==
    \A name \in UnboundCalls(ast) :
        Generated => ~GeneratedOk /\ ~CallEmitted(name) /\ links = 0

\* C6 as amended: a call to a name bound nowhere is not rejected at
\* generation time. A program of calls, literals, blocks and loops
\* generates; whenever generation succeeds, the call instruction is in the
\* unit with a deferred jump entry for the name, and it is the link pass
\* that fails, with GenError for the unknown label.
C6_UnboundCallFailsAtLink ==
    \A name \in UnboundCalls(ast) :
        /\ (Generated /\ CallsOnly(ast)) => GeneratedOk
        /\ GeneratedOk => /\ CallEmitted(name)
                          /\ links > 0 => err = "GenError: Unknown label"

\* A call g(...) with arguments was generated on its own and the link pass
\* has failed on it.
C6_Witness ==
    /\ mode = "fragment" /\ pc = "done" /\ links = 1
    /\ ast.child.node = "Expr" /\ ast.child.child.node = "FnCall"
    /\ ast.child.child.name = "g" /\ Len(ast.child.child.args) = 2
    /\ CallEmitted("g")
    /\ err = "GenError: Unknown label"

\* The linked program of a while-loop generated on its own is running or
\* has run.
LoopRuns ==
    /\ mode = "fragment" /\ ast.child.node = "WhileLoop"
    /\ pc \in {"run", "done"} /\ links = 1 /\ err = "ok"

\* The three labels of the outermost loop are the last three minted.
StartAddr == unit.labels["__" \o ToString(gst.next_label_id - 2)]
GuardAddr == unit.labels["__" \o ToString(gst.next_label_id - 1)]
EndAddr == unit.labels["__" \o ToString(gst.next_label_id)]

\* The addresses of the body, of the guard expression and of the
\* conditional jump that closes the loop.
BodyAddrs == StartAddr..(GuardAddr - 1)
GuardAddrs == GuardAddr..(EndAddr - 2)
BranchAddr == EndAddr - 1

GuardIs(v) == ast.child.guard = Expr(Lit(IntNode(v)))

\* C7: in the linked code of a while-loop control reaches the guard before
\* any body instruction; a guard false on its first evaluation sends
\* execution to the end label with no body instruction executed; after each
\* body execution the guard is evaluated again.
C7_GuardBeforeBody ==
    LoopRuns =>
        /\ cur \in BodyAddrs => BranchAddr \in visited
        /\ cur = 0 => vm.pc + 1 = GuardAddr
        /\ (prev \in BodyAddrs /\ cur \notin BodyAddrs) => cur = GuardAddr
        /\ (cur = BranchAddr /\ vm.state = "running")
              => vm.pc + 1 = (IF Truthy(ast.child.guard.child.child.value)
                              THEN StartAddr ELSE EndAddr)
        /\ GuardIs(0) => /\ visited \cap BodyAddrs = {}
                         /\ pc = "done" => vm.state = "end" /\ cur = BranchAddr

\* while (0) { 1; ... } has run to its end label.
C7_Witness ==
    /\ LoopRuns /\ pc = "done" /\ GuardIs(0)
    /\ Cardinality(BodyAddrs) >= 4
    /\ visited = {0} \cup GuardAddrs \cup {BranchAddr}

\* while (1) { ... } has executed its body and come back to the guard.
C7_BodyThenGuard ==
    LoopRuns /\ GuardIs(1) /\ prev \in BodyAddrs /\ cur = GuardAddr

\* In a program { fn f(..) {..}; fn main() {..} } generated by gen_stmt and
\* inserted after the entry stub: the definition of f, its frame size, and
\* the addresses of the code of f and of main between the TOS increment and
\* the TOS decrement.
DefOfF == ast.child.children[1].child
DefOfMain == ast.child.children[2].child
FrameSize(def) == StackSize(def).val
PrologueLen(def) == Len(IncrTos(EmptyUnit, FrameSize(def)).instrs)
EpilogueLen == Len(Ret(Rot(DecrTos(EmptyUnit, 1))).instrs)
BodyOfF == (unit.labels["f"] + PrologueLen(DefOfF))..(unit.labels["main"] - EpilogueLen - 1)
BodyOfMain == (unit.labels["main"] + PrologueLen(DefOfMain))..(Len(unit.instrs) - EpilogueLen - 1)

\* The instructions of u at the addresses S, as a unit of their own.
Slice(u, S) == [instrs |-> [i \in 1..Cardinality(S) |-> u.instrs[MinOf(S) + i]],
                labels |-> EmptyDict, jumps |-> EmptyDict]

\* A store_tos_ptr starts at an address of S.
WritesTos(u, S) ==
    \E a \in S : /\ a + 2 <= Len(u.instrs)
                 /\ u.instrs[a + 1] = Instr("Push", Some(TOS_ADDR_PTR))
                 /\ u.instrs[a + 2].kind = "Store"

\* C8: a program with functions compiles, and between the TOS increment
\* and the TOS decrement of a function nothing writes the TOS pointer, so
\* the net change of the pointer across the body is 0.
C8_BodyKeepsTos ==
    (mode = "gen" /\ Generated /\ ast \in CallPrograms)
        => /\ GeneratedOk
           /\ pc = "halt" => ~WritesTos(unit, BodyOfF) /\ ~WritesTos(unit, BodyOfMain)

\* C9: a program with functions compiles, stack_size gives the frame size
\* of f, and every slot the body of f loads lies in 1..stack_size(f).
C9_FrameSizeSufficient ==
    (mode = "gen" /\ Generated /\ ast \in CallPrograms)
        => /\ GeneratedOk
           /\ StackSize(DefOfF).err = "none"
           /\ pc = "halt" =>
                 LET slots == TosOffsets(Slice(unit, BodyOfF), "Load")
                 IN  \A j \in 1..Len(slots) : slots[j] \in 1..FrameSize(DefOfF)

AllDistinct(q) == \A i, j \in 1..Len(q) : q[i] = q[j] => i = j

\* C10: for f(p1..pn) { use p1; ..; use pn } called with n arguments, the
\* caller stores argument i at TOS - i and the callee, whose prologue adds
\* its frame size S to TOS, loads parameter i from TOS + S - slot: the two
\* addresses agree, slot(i) = S + i for i in 0..n-1.
C10_ArgumentsMeetParameters ==
    \A q \in SeqsUpTo(VarNames, MaxArgs), a \in SeqsUpTo(LitExprs, MaxArgs) :
        (/\ mode = "gen" /\ Generated
         /\ AllDistinct(q) /\ Len(a) = Len(q)
         /\ ast = CallProgram(q, ParamUses(q), a))
            => /\ GeneratedOk
               /\ pc = "halt" =>
                     /\ TosOffsets(Slice(unit, BodyOfMain), "Store")
                           = [i \in 1..Len(q) |-> i - 1]
                     /\ TosOffsets(Slice(unit, BodyOfF), "Load")
                           = [i \in 1..Len(q) |-> FrameSize(DefOfF) + i - 1]

\* ------------------------------------------------------------ scope frames
\* C11: when gen_stmt has returned, the frame stack of the Namespace it was
\* given is as high as before the call (the Namespace was new: 0), and no
\* name bound during the generation is still resolved.
C11_FramesBalanced ==
    GeneratedOk => /\ Len(gst.ns.stack) = 0
                   /\ \A n \in VarNames : NamespaceGet(gst.ns, n).err # "none"

\* ------------------------------------------------------------ arguments
\* A statement f(a1, .., an), n >= 2, has been generated on its own.
CallOfMany ==
    /\ mode = "fragment" /\ GeneratedOk
    /\ ast.child.node = "Expr" /\ ast.child.child.node = "FnCall"
    /\ Len(ast.child.child.args) >= 2

\* args_raw of that call: gen_stmt and gen_fn_call have each pushed a frame.
ArgsRaw == GenEach(ast.child.child.args, PushFrame(PushFrame(InitialGenState)), FALSE).units

RECURSIVE SumInstrs(_, _)
SumInstrs(units, k) == IF k = 0 THEN 0 ELSE Len(units[k].instrs) + SumInstrs(units, k - 1)

\* The index in the unit of the Store that ends args_pushed[i], and of the
\* last instruction of the code of argument j.
StoreAt(i) == SumInstrs(ArgsPushed(ArgsRaw), i)
CodeEnd(j) == SumInstrs(ArgsPushed(ArgsRaw), j - 1) + Len(ArgsRaw[j].instrs)
CallAt == SumInstrs(ArgsPushed(ArgsRaw), Len(ArgsRaw)) + 1

\* The indices above are where the unit has the stores and the call.
StoresWhereComputed ==
    CallOfMany =>
        /\ unit.instrs[CallAt].kind = "Call"
        /\ \A i \in 1..Len(ArgsRaw) :
              /\ unit.instrs[StoreAt(i)].kind = "Store"
              /\ \E p \in 1..StoreAt(i) : AccessAt(unit, p, "Store") = i - 1
                                          /\ p + (IF i = 1 THEN 2 ELSE 4) = StoreAt(i)

\* Between the store of argument i and the call, nothing stores at offset i.
NoOverwrite ==
    \A i \in 1..Len(ArgsRaw) :
        \A p \in (StoreAt(i) + 1)..(CallAt - 1) : AccessAt(unit, p, "Store") # i - 1

\* C12: in the code of a call with n >= 2 arguments the code of every
\* argument comes before the store of any argument, and no argument stored
\* is overwritten before the call instruction.
C12_ArgumentsEvaluatedThenStored ==
    CallOfMany =>
        /\ \A i, j \in 1..Len(ArgsRaw) : CodeEnd(j) < StoreAt(i)
        /\ NoOverwrite

\* The overwriting alone: a stored argument is still in its slot at the call.
StoredArgumentsSurvive == CallOfMany => NoOverwrite

\* ------------------------------------------------------------ helpers on their own
\* The specification of the helpers: incr_tos(delta) or decr_tos(delta) is
\* called on a unit, or stack_size on a node.  preA holds the unit before
\* the call, lastop the helper called.
PureInit ==
    /\ unit \in {EmptyUnit, Fresh}
    /\ other = EmptyUnit
    /\ preA = EmptyUnit
    /\ preB = EmptyUnit
    /\ err = "none"
    /\ links = 0
    /\ inserted = FALSE
    /\ lastop = "new"
    /\ ast \in Programs \cup FnDefs
    /\ mode = "pure"
    /\ pc = "pure"
    /\ gst = InitialGenState
    /\ vm = InitialVM
    /\ cur = -1
    /\ prev = -1
    /\ visited = {}
    /\ compiled = <<>>
    /\ nsNow = EmptyNamespace
    /\ nsPrev = EmptyNamespace
    /\ nsOp = [op |-> "new"]
    /\ handed = <<>>
    /\ delta \in 0..MaxDelta
    /\ sized = [val |-> 0, err |-> "none"]

PIncrTos ==
    /\ mode = "pure" /\ pc = "pure"
    /\ unit' = IncrTos(unit, delta)
    /\ preA' = unit
    /\ lastop' = "incr_tos"
    /\ pc' = "done"
    /\ UNCHANGED <<other, preB, err, links, inserted>>
    /\ UNCHANGED <<ast, mode, gst, vm, cur, prev, visited, compiled>>
    /\ UNCHANGED partVars

PDecrTos ==
    /\ mode = "pure" /\ pc = "pure"
    /\ unit' = DecrTos(unit, delta)
    /\ preA' = unit
    /\ lastop' = "decr_tos"
    /\ pc' = "done"
    /\ UNCHANGED <<other, preB, err, links, inserted>>
    /\ UNCHANGED <<ast, mode, gst, vm, cur, prev, visited, compiled>>
    /\ UNCHANGED partVars

PStackSize ==
    /\ mode = "pure" /\ pc = "pure"
    /\ sized' = StackSize(ast)
    /\ lastop' = "stack_size"
    /\ pc' = "done"
    /\ UNCHANGED <<unit, other, preA, preB, err, links, inserted>>
    /\ UNCHANGED <<ast, mode, gst, vm, cur, prev, visited, compiled>>
    /\ UNCHANGED <<nsNow, nsPrev, nsOp, handed, delta>>

PureNext == PIncrTos \/ PDecrTos \/ PStackSize

SpecPure == PureInit /\ [][PureNext]_vars

\* The instructions that rewrite address 0 to its value plus d (op "Add")
\* or minus d (op "Sub").
TosRewrite(op, d) ==
    <<Instr("Push", Some(TOS_ADDR_PTR)), Instr("Load", None), Instr("Push", Some(d)),
      Instr(op, None), Instr("Push", Some(TOS_ADDR_PTR)), Instr("Store", None)>>

Appended == SubSeq(unit.instrs, Len(preA.instrs) + 1, Len(unit.instrs))

\* C13: incr_tos and decr_tos append nothing for delta 0 and the rewrite of
\* address 0 by +delta or -delta otherwise, and the code of a function of
\* frame size 0 with an empty body is no more than rot and ret.
C13_ZeroDeltaSkipped ==
    /\ lastop = "incr_tos" =>
          Appended = IF delta = 0 THEN <<>> ELSE TosRewrite("Add", delta)
    /\ lastop = "decr_tos" =>
          /\ Appended = IF delta = 0 THEN <<>> ELSE TosRewrite("Sub", delta)
          /\ delta = 0 => FnDefUnit("f", 0, EmptyUnit).instrs
                             = <<Instr("Rot", None), Instr("Ret", None)>>

\* incr_tos alone does as C13 says.
IncrTosSkipsZero ==
    lastop = "incr_tos" =>
        Appended = IF delta = 0 THEN <<>> ELSE TosRewrite("Add", delta)

\* decr_tos does as C13 says for a delta that is not 0.
DecrTosRewrites ==
    (lastop = "decr_tos" /\ delta > 0) => Appended = TosRewrite("Sub", delta)

\* The frame size as C17 states it.
Nested(stmt) == stmt.child.node \in {"Block", "WhileLoop"}

MaxOf(S) == IF S = {} THEN 0 ELSE CHOOSE x \in S : \A y \in S : y <= x

RECURSIVE SumOver(_, _), ClaimedSize(_)
SumOver(children, k) ==
    IF k = 0 THEN 0
    ELSE (IF Nested(children[k]) THEN 0 ELSE ClaimedSize(children[k]))
         + SumOver(children, k - 1)

ClaimedSize(node) ==
    CASE node.node = "Stmt" -> ClaimedSize(node.child)
      [] node.node = "Block" ->
            SumOver(node.children, Len(node.children))
            + MaxOf({ClaimedSize(node.children[k]) :
                        k \in {j \in 1..Len(node.children) : Nested(node.children[j])}})
      [] node.node = "WhileLoop" -> ClaimedSize(node.guard) + ClaimedSize(node.body)
      [] node.node = "VarDecl" -> 1
      [] node.node = "FnDef" -> Len(node.arg_names) + ClaimedSize(node.stmt)
      [] OTHER -> 0

\* C17: stack_size returns, for a block, the sum over the children that are
\* neither blocks nor loops plus the largest of the children that are; for
\* a loop guard plus body, for a declaration 1, for a function definition
\* the parameter count plus the body, and 0 for every other node.
C17_StackSizeByCases ==
    lastop = "stack_size" => sized.err = "none" /\ sized.val = ClaimedSize(ast)

\* Where stack_size returns, it returns the size C17 states.
StackSizeWhereItReturns ==
    (lastop = "stack_size" /\ sized.err = "none") => sized.val = ClaimedSize(ast)

\* stack_size has returned a size that is not 0.
StackSizeReturnsSome == lastop = "stack_size" /\ sized.err = "none" /\ sized.val > 0

\* ------------------------------------------------------------ Namespace on its own
\* The specification of the scope resolver: push, pop, add and get are
\* called on one Namespace in any order.  nsPrev holds the Namespace before
\* the latest call, nsOp the call and its outcome, handed the slots add has
\* handed out, in order.
NsInit ==
    /\ unit = EmptyUnit
    /\ other = EmptyUnit
    /\ preA = EmptyUnit
    /\ preB = EmptyUnit
    /\ err = "none"
    /\ links = 0
    /\ inserted = FALSE
    /\ lastop = "new"
    /\ ast = Stmt(Block(<<>>))
    /\ mode = "ns"
    /\ pc = "ns"
    /\ gst = InitialGenState
    /\ vm = InitialVM
    /\ cur = -1
    /\ prev = -1
    /\ visited = {}
    /\ compiled = <<>>
    /\ PartsIdle

RECURSIVE Ascending(_)
Ascending(S) == IF S = {} THEN <<>> ELSE <<MinOf(S)>> \o Ascending(S \ {MinOf(S)})

\* The slots bound in the top frame of after and not in that of before.
NewSlots(before, after) ==
    LET top == Len(after.stack)
    IN  IF top = 0 THEN {}
        ELSE {after.stack[top][n] : n \in DOMAIN after.stack[top] \ DOMAIN before.stack[top]}

NsPush ==
    /\ mode = "ns" /\ Len(nsNow.stack) < MaxFrames
    /\ nsNow' = NamespacePush(nsNow)
    /\ nsPrev' = nsNow
    /\ nsOp' = [op |-> "push", err |-> "none"]
    /\ UNCHANGED <<handed, delta, sized>>
    /\ UNCHANGED <<unitVars, genVars>>

\* list.pop() of an empty list raises IndexError.
NsPop ==
    /\ mode = "ns"
    /\ nsNow' = IF nsNow.stack = <<>> THEN nsNow ELSE NamespacePop(nsNow)
    /\ nsPrev' = nsNow
    /\ nsOp' = [op |-> "pop", err |-> IF nsNow.stack = <<>> THEN "IndexError" ELSE "none"]
    /\ UNCHANGED <<handed, delta, sized>>
    /\ UNCHANGED <<unitVars, genVars>>

NsAdd ==
    /\ mode = "ns"
    /\ \E names \in SeqsUpTo(VarNames, MaxArgs), stack_size \in {0} :
          /\ Len(handed) + Len(names) <= MaxHanded
          /\ LET r == NamespaceAdd(nsNow, names, stack_size)
             IN  /\ nsNow' = r.ns
                 /\ nsOp' = [op |-> "add", err |-> r.err, slots |-> NewSlots(nsNow, r.ns)]
                 /\ handed' = handed \o Ascending(NewSlots(nsNow, r.ns))
    /\ nsPrev' = nsNow
    /\ UNCHANGED <<delta, sized>>
    /\ UNCHANGED <<unitVars, genVars>>

NsGet ==
    /\ mode = "ns"
    /\ \E name \in VarNames :
          LET g == NamespaceGet(nsNow, name)
          IN  nsOp' = [op |-> "get", err |-> g.err, name |-> name, val |-> g.val]
    /\ nsPrev' = nsNow
    /\ UNCHANGED <<nsNow, handed, delta, sized>>
    /\ UNCHANGED <<unitVars, genVars>>

NsNext == NsPush \/ NsPop \/ NsAdd \/ NsGet

SpecNs == NsInit /\ [][NsNext]_vars

\* The slots bound in frame i of a Namespace, and in all its frames.
FrameSlots(n, i) == {n.stack[i][name] : name \in DOMAIN n.stack[i]}
LiveSlots(n) == UNION {FrameSlots(n, i) : i \in 1..Len(n.stack)}

\* C14 as claimed: a slot handed out by add is greater than every slot
\* handed out before it, whatever was popped in between.
C14_SlotsNeverReused ==
    \A i, j \in 1..Len(handed) : i < j => handed[i] < handed[j]

\* C14 as amended: add hands out depth() + 1, depth() + 2, .., counting the
\* bindings of the live frames only; each slot handed out is greater than
\* every slot of a live frame, and the slots of a popped frame are free
\* again.
C14_SlotsAboveLiveOnes ==
    nsOp.op = "add" =>
        /\ nsOp.slots = (NamespaceDepth(nsPrev) + 1)..NamespaceDepth(nsNow)
        /\ \A s \in nsOp.slots : \A t \in LiveSlots(nsPrev) : t < s
        /\ (nsOp.err = "none" /\ nsPrev.stack # <<>>)
              => Cardinality(nsOp.slots)
                    = Cardinality(DOMAIN nsNow.stack[Len(nsNow.stack)])
                      - Cardinality(DOMAIN nsPrev.stack[Len(nsPrev.stack)])

\* add has handed out, over a live frame, a slot that a popped frame held.
C14_Witness ==
    /\ nsOp.op = "add" /\ nsOp.err = "none"
    /\ LiveSlots(nsPrev) # {}
    /\ \E i, j \in 1..Len(handed) : i < j /\ handed[i] = handed[j]
                                    /\ handed[j] \in nsOp.slots

\* The frames of a Namespace that bind name.
Binding(n, name) == {i \in 1..Len(n.stack) : name \in DOMAIN n.stack[i]}

\* C19: the slots of the live frames are pairwise distinct and are exactly
\* 1..depth(), the slots of an outer frame are smaller than those of an
\* inner frame, and get returns the slot of the innermost frame that binds
\* the name, or raises GenError when none does, and leaves the stack as it
\* was.
C19_LiveSlotsDense ==
    /\ LiveSlots(nsNow) = 1..NamespaceDepth(nsNow)
    /\ \A i, j \in 1..Len(nsNow.stack) :
          i < j => \A a \in FrameSlots(nsNow, i), b \in FrameSlots(nsNow, j) : a < b
    /\ \A i \in 1..Len(nsNow.stack) :
          \A m, n \in DOMAIN nsNow.stack[i] :
              nsNow.stack[i][m] = nsNow.stack[i][n] => m = n
    /\ nsOp.op = "get" =>
          /\ nsNow = nsPrev
          /\ IF Binding(nsNow, nsOp.name) = {}
             THEN nsOp.err = "GenError: Unknown identifier"
             ELSE /\ nsOp.err = "none"
                  /\ nsOp.val = nsNow.stack[MaxOf(Binding(nsNow, nsOp.name))][nsOp.name]

\* get has resolved a name that two live frames bind.
C19_Witness ==
    /\ nsOp.op = "get" /\ nsOp.err = "none"
    /\ Cardinality(Binding(nsNow, nsOp.name)) >= 2
    /\ nsOp.val = NamespaceDepth(nsNow)

\* get has failed on a name that a popped frame had bound.
C19_UnboundAfterPop ==
    /\ nsOp.op = "get" /\ nsOp.err = "GenError: Unknown identifier"
    /\ handed # <<>>

\* ------------------------------------------------------------ linking again
\* C16: link called on a unit that has a jump or a call and was linked
\* without error succeeds again and leaves every instruction as it was.
C16_RelinkIdempotent ==
    [][(mode = "unit" /\ links = 1 /\ err = "ok" /\ DOMAIN unit.jumps # {} /\ links' = 2)
          => (err' = "ok" /\ unit' = unit)]_vars

\* link called again on a unit without jumps and calls succeeds and changes
\* nothing.
RelinkWithoutJumps ==
    [][(mode = "unit" /\ links = 1 /\ err = "ok" /\ DOMAIN unit.jumps = {} /\ links' = 2)
          => (err' = "ok" /\ unit' = unit)]_vars

\* ------------------------------------------------------------ synthetic labels
RECURSIVE CountOf(_, _), CountIn(_, _, _)
\* The number of nodes of a kind in the tree under n, n included.
CountOf(n, kind) ==
    (IF n.node = kind THEN 1 ELSE 0) +
    CASE n.node \in {"Stmt", "Expr", "Lit"} -> CountOf(n.child, kind)
      [] n.node = "Block" -> CountIn(n.children, Len(n.children), kind)
      [] n.node = "FnCall" -> CountIn(n.args, Len(n.args), kind)
      [] n.node = "FnDef" -> CountOf(n.stmt, kind)
      [] n.node = "WhileLoop" -> CountOf(n.guard, kind) + CountOf(n.body, kind)
      [] n.node = "Assign" -> CountOf(n.expr, kind)
      [] OTHER -> 0

CountIn(nodes, k, kind) ==
    IF k = 0 THEN 0 ELSE CountOf(nodes[k], kind) + CountIn(nodes, k - 1, kind)

\* The label names of a unit that no function definition declared.
Synthetic(u) == DOMAIN u.labels \ FnNames

\* Every loop of the statement has got three label names of its own in the
\* latest unit gen_stmt returned.
LoopLabelsDistinct ==
    (compiled # <<>> /\ compiled[Len(compiled)].err = "none")
        => Cardinality(Synthetic(compiled[Len(compiled)].unit)) = 3 * CountOf(ast, "WhileLoop")

\* C15: two successive compilations of one statement in one process give
\* the same labels and jumps, and in each every loop has three label names
\* of its own.
C15_LabelsRepeatAcrossCompiles ==
    /\ (Len(compiled) >= 2 /\ compiled[1].err = "none" /\ compiled[2].err = "none")
          => /\ compiled[2].unit.labels = compiled[1].unit.labels
             /\ compiled[2].unit.jumps = compiled[1].unit.jumps
    /\ LoopLabelsDistinct

\* A statement with two loops has been compiled twice.
TwoLoopsCompiledTwice ==
    /\ Len(compiled) = 2 /\ compiled[1].err = "none" /\ compiled[2].err = "none"
    /\ CountOf(ast, "WhileLoop") = 2

\* ------------------------------------------------------------ label names
\* C18: a program that defines a function named as an intrinsic, or two
\* functions of one name, compiles, and each label declaration of the
\* compilation has bound a name of its own: the unit handed to link has as
\* many labels as definitions, loops (three each) and intrinsics (six)
\* declared.
C18_LabelsBoundOnce ==
    (mode = "gen" /\ Generated /\ ast \in ClashPrograms)
        => /\ GeneratedOk
           /\ pc = "link" =>
                 Cardinality(DOMAIN unit.labels)
                    = CountOf(ast, "FnDef") + 3 * CountOf(ast, "WhileLoop")
                      + Cardinality(IntrinsicNames)

\* Of a unit under construction: a name once bound stays bound to its
\* index, whatever is declared or inserted later.
LabelStaysBound ==
    [][mode = "unit" =>
          \A name \in DOMAIN unit.labels :
              name \in DOMAIN unit'.labels /\ unit'.labels[name] = unit.labels[name]]_vars

====
